---- MODULE Spec2Model ----
(***************************************************************************)
(* A model of src/handler.py of worker-vllm: the module start-up (model    *)
(* name, engine arguments), the two job handlers (handler_streaming and    *)
(* handler) running as coroutines over one shared engine, the shared       *)
(* metrics mapping llm.engine.metrics, validate_sampling_params and        *)
(* concurrency_controller.                                                 *)
(*                                                                         *)
(* Python objects are modelled by what the code can observe of them:       *)
(*   - a dict is a function whose DOMAIN is its set of keys;               *)
(*   - a mutable dict that is shared by reference lives in metricsHeap and *)
(*     is named by its address, so that aliasing is visible;               *)
(*   - a JSON value is a record [t |-> type tag, v |-> payload];           *)
(*   - a string that the code splits and lower-cases is a sequence of      *)
(*     '/'-free segments, each with its lower-cased text and a flag saying *)
(*     whether it held an upper-case letter.                               *)
(***************************************************************************)
EXTENDS Integers, Sequences, FiniteSets, TLC

\* ------------------------------------------------------------------ bounds

\* Longest sequence of intermediate states the engine produces for one job.
MaxStates == 2
\* Largest number of completions in one intermediate state.
MaxCompletions == 2
\* Largest number of keys present in a sampling_params mapping.
MaxFields == 2
\* Largest length of the scheduler's waiting and swapped queues.
MaxWaiting == 18
MaxSwapped == 16

\* The jobs the platform hands to the worker; each is handled once.
Jobs == {"A", "B"}

VARIABLES
    phase,          \* "import" | "running" | "crashed": the module's start-up
    MODEL_NAME,     \* os.environ.get('MODEL_NAME'): <<>> is None
    STREAMING,      \* os.environ.get('STREAMING', False) == 'True'
    pc,             \* per job: "idle" | "iterating" | "done" | "failed"
    job_input,      \* per job: job['input'], a dict
    prompt,         \* per job: the templated prompt, <<>> before it is built
    sampling_params,\* per job: what SamplingParams was built from
    generate_calls, \* per job: the request ids of its llm.generate calls
    results,        \* per job: the intermediate states received so far
    final_output,   \* per job (handler): <<>> is None, else <<request_output>>
    yielded,        \* per job (handler_streaming): the responses yielded
    returned,       \* per job (handler): the responses returned
    raised,         \* per job: the exception that left the handler, or "none"
    metricsHeap,    \* address -> dict: the metrics mapping, held by reference
    engine_metrics, \* llm.engine.metrics: the address of the engine's mapping
    uuids,          \* how many request ids random_uuid has handed out
    waiting,        \* len(llm.engine.scheduler.waiting)
    swapped,        \* len(llm.engine.scheduler.swapped)
    polled,         \* the last step was a concurrency_controller call
    cc_result,      \* what that call returned
    sp_input,       \* the mapping handed to validate_sampling_params
    sp_result       \* its outcome: <<>> before the call

vars == <<phase, MODEL_NAME, STREAMING, pc, job_input, prompt, sampling_params,
          generate_calls, results, final_output, yielded, returned, raised,
          metricsHeap, engine_metrics, uuids, waiting, swapped,
          polled, cc_result, sp_input, sp_result>>

startupVars == <<phase, MODEL_NAME, STREAMING>>
jobVars == <<pc, job_input, prompt, sampling_params, generate_calls, results,
             final_output, yielded, returned, raised, uuids>>
metricVars == <<metricsHeap, engine_metrics>>
schedVars == <<waiting, swapped>>
ccVars == <<polled, cc_result>>
spVars == <<sp_input, sp_result>>

\* ------------------------------------------------------------ Python values

PyNone == [t |-> "none", v |-> 0]
PyBool(b) == [t |-> "bool", v |-> IF b THEN 1 ELSE 0]
PyInt(i) == [t |-> "int", v |-> i]
\* An int beyond the range of a float, such as 10**400.
PyBigInt == [t |-> "bigint", v |-> 1]
\* A finite float, held as a number of halves: PyFloat(5) is 2.5.
PyFloat(h) == [t |-> "float", v |-> h]
PyInf == [t |-> "inf", v |-> 1]
PyNaN == [t |-> "nan", v |-> 0]
\* Strings, by what int() and float() make of them.
PyStrInt(i) == [t |-> "str_int", v |-> i]
PyStrFloat(h) == [t |-> "str_float", v |-> h]
PyStrInf == [t |-> "str_inf", v |-> 1]
PyStrOther == [t |-> "str_other", v |-> 0]
PyList == [t |-> "list", v |-> 0]

\* d[k] = v on a dict.
DictSet(d, k, v) == [x \in DOMAIN d \cup {k} |-> IF x = k THEN v ELSE d[x]]

\* dict.get(key): None when the key is absent.
DictGet(d, k) == IF k \in DOMAIN d THEN d[k] ELSE PyNone

\* The outcome of an expression: the exception it raised ("none" when it
\* returned) and the value it returned.
Returns(x) == [exc |-> "none", val |-> x]
Raises(e) == [exc |-> e, val |-> PyNone]

\* float -> int truncates toward zero; h is a number of halves.
Trunc(h) == IF h >= 0 THEN h \div 2 ELSE -((-h) \div 2)

\* Python's int(value).
py_int(value) ==
    CASE value.t \in {"none", "list"} -> Raises("TypeError")
      [] value.t = "bool" -> Returns(PyInt(value.v))
      [] value.t \in {"int", "bigint"} -> Returns(value)
      [] value.t = "float" -> Returns(PyInt(Trunc(value.v)))
      [] value.t = "inf" -> Raises("OverflowError")
      [] value.t = "nan" -> Raises("ValueError")
      [] value.t = "str_int" -> Returns(PyInt(value.v))
      [] OTHER -> Raises("ValueError")

\* Python's float(value).
py_float(value) ==
    CASE value.t \in {"none", "list"} -> Raises("TypeError")
      [] value.t \in {"bool", "int"} -> Returns(PyFloat(2 * value.v))
      [] value.t = "bigint" -> Raises("OverflowError")
      [] value.t \in {"float", "inf", "nan"} -> Returns(value)
      [] value.t = "str_int" -> Returns(PyFloat(2 * value.v))
      [] value.t = "str_float" -> Returns(PyFloat(value.v))
      [] value.t = "str_inf" -> Returns(PyInf)
      [] OTHER -> Raises("ValueError")

\* try: return int(value) / except (TypeError, ValueError): return default
validate_int(value, default) ==
    LET r == py_int(value)
    IN  IF r.exc \in {"TypeError", "ValueError"} THEN Returns(default) ELSE r

\* try: return float(value) / except (TypeError, ValueError): return default
validate_float(value, default) ==
    LET r == py_float(value)
    IN  IF r.exc \in {"TypeError", "ValueError"} THEN Returns(default) ELSE r

\* if isinstance(value, bool): return value / return default
validate_bool(value, default) ==
    IF value.t = "bool" THEN Returns(value) ELSE Returns(default)

\* The keys of the configuration, in the order the code computes them.
FieldOrder == <<"n", "best_of", "presence_penalty", "frequency_penalty",
                "temperature", "top_p", "top_k", "use_beam_search", "stop",
                "ignore_eos", "max_tokens", "logprobs">>
Fields == {FieldOrder[i] : i \in DOMAIN FieldOrder}
IntFields == {"n", "best_of", "top_k", "max_tokens"}
FloatFields == {"presence_penalty", "frequency_penalty", "temperature", "top_p"}
BoolFields == {"use_beam_search", "ignore_eos"}

\* The default the code hands to the validator of each field.
FieldDefault(f) ==
    CASE f = "n" -> PyInt(1)
      [] f = "best_of" -> PyNone
      [] f \in {"presence_penalty", "frequency_penalty"} -> PyFloat(0)
      [] f \in {"temperature", "top_p"} -> PyFloat(2)
      [] f = "top_k" -> PyInt(-1)
      [] f \in BoolFields -> PyBool(FALSE)
      [] f = "max_tokens" -> PyInt(256)
      [] OTHER -> PyNone

\* stop = sampling_params.get('stop', None)
stop_value(sp) == Returns(DictGet(sp, "stop"))

\* A variant that hands logprobs on as it came, as it does stop.
logprobs_passthrough(sp) == Returns(DictGet(sp, "logprobs"))

\* logprobs = validate_float(sampling_params.get('logprobs'), None)
logprobs_value(sp) == validate_float(DictGet(sp, "logprobs"), PyNone)

\* The right-hand side of the assignment to field f (lines 82-96).
FieldOutcome(sp, f) ==
    CASE f \in IntFields -> validate_int(DictGet(sp, f), FieldDefault(f))
      [] f \in FloatFields -> validate_float(DictGet(sp, f), FieldDefault(f))
      [] f \in BoolFields -> validate_bool(DictGet(sp, f), FieldDefault(f))
      [] f = "stop" -> stop_value(sp)
      [] OTHER -> logprobs_value(sp)

\* validate_sampling_params(sampling_params): the assignments run in order, the
\* first exception that a validator lets through leaves the function, and
\* otherwise the dict of the twelve values is returned.
validate_sampling_params(sp) ==
    LET bad == {i \in DOMAIN FieldOrder : FieldOutcome(sp, FieldOrder[i]).exc # "none"}
    IN  IF bad # {}
        THEN LET first == CHOOSE i \in bad : \A k \in bad : i <= k
             IN  [exc |-> FieldOutcome(sp, FieldOrder[first]).exc, val |-> <<>>]
        ELSE [exc |-> "none",
              val |-> [f \in Fields |-> FieldOutcome(sp, f).val]]

\* ------------------------------------------------------------------ start-up

\* One '/'-free segment of a model name: its lower-cased text, and whether it
\* held an upper-case letter.
Seg(text, cased) == [text |-> text, cased |-> cased]

\* str.lower()
Lower(name) == [i \in DOMAIN name |-> Seg(name[i].text, FALSE)]

\* str.split('/')
Split(name) == [i \in DOMAIN name |-> <<name[i]>>]

\* The string literals of lines 124 and 185.
LLAMA_7B == <<Seg("llama-2-7b-chat-hf", FALSE)>>
LLAMA_13B == <<Seg("llama-2-13b-chat-hf", FALSE)>>

\* The values of the MODEL_NAME environment variable considered; <<>> is an
\* unset variable (None).
ModelNames ==
    { <<>>,
      LLAMA_7B,
      <<Seg("llama-2-7b-chat-hf", TRUE)>>,
      LLAMA_13B,
      <<Seg("opt-125m", FALSE)>>,
      <<Seg("meta-llama", FALSE), Seg("llama-2-7b-chat-hf", TRUE)>>,
      <<Seg("meta-llama", FALSE), Seg("llama-2-13b-chat-hf", FALSE)>>,
      <<Seg("facebook", FALSE), Seg("opt-125m", FALSE)>> }

\* A model name in the form the engine arguments need: organisation/model.
OPT_125M == <<Seg("facebook", FALSE), Seg("opt-125m", FALSE)>>

\* Lines 14-47, run once when the module is imported: engine_args evaluates
\* MODEL_NAME.split('/')[1], which raises AttributeError on None and IndexError
\* on a name without '/'; an exception here ends the worker before
\* runpod.serverless.start is reached.
module_import ==
    /\ phase = "import"
    /\ phase' = IF MODEL_NAME = <<>> THEN "AttributeError"
                ELSE IF Len(Split(MODEL_NAME)) < 2 THEN "IndexError"
                ELSE "running"
    /\ UNCHANGED <<MODEL_NAME, STREAMING, jobVars, metricVars, schedVars,
                   ccVars, spVars>>

\* Lines 124-127 and 185-188: which template the handlers use.
select_template(name) ==
    IF Lower(name) = LLAMA_7B \/ Lower(name) = LLAMA_13B
    THEN "LLAMA_TEMPLATE"
    ELSE "DEFAULT_TEMPLATE"

\* template(job_input['prompt']): the templates embed the raw prompt, unchanged,
\* in a wrapper text of their own.
apply_template(template, raw) == [template |-> template, prompt |-> raw]

\* ------------------------------------------------------------------- engine

\* The job inputs the platform sends.
SamplingSmall == [n |-> PyInt(2), temperature |-> PyStrOther]
SamplingOverflow == [top_k |-> PyInf]
JobInputs ==
    { [prompt |-> "p1"],
      [prompt |-> "p2", sampling_params |-> SamplingSmall],
      [prompt |-> "p1", sampling_params |-> SamplingOverflow],
      [sampling_params |-> SamplingSmall] }

\* The engine's tokenizer: how many tokens a templated prompt has.
PromptTokens(p) == IF p.prompt = "p1" THEN 3 ELSE 4

\* The intermediate states (RequestOutput) the engine may produce next for job
\* j: the k-th state of a request holds n completions of k tokens each, the
\* i-th with text <<i, k>>; none for a job with no request in the engine.
EngineStates(j) ==
    IF pc[j] # "iterating" THEN {}
    ELSE LET k == Len(results[j]) + 1
         IN  { [prompt |-> prompt[j][1],
                prompt_token_ids |-> PromptTokens(prompt[j][1]),
                outputs |-> [i \in 1..n |-> [text |-> <<i, k>>, token_ids |-> k]]] :
               n \in 1..MaxCompletions }

\* ----------------------------------------------------------------- handlers

\* prepare_metrics(): the engine's mapping itself, not a copy. The keys the
\* engine keeps in it stand as the one key "stats".
prepare_metrics == engine_metrics

\* [output.text for output in request_output.outputs]
text_outputs(ro) == [i \in DOMAIN ro.outputs |-> ro.outputs[i].text]

\* The three assignments into the mapping at address a (lines 162-164 and
\* 225-227).
write_metrics(heap, a, inp, ro) ==
    [heap EXCEPT ![a] =
        DictSet(DictSet(DictSet(@, "job_input", inp),
                        "input_tokens",
                        [i \in DOMAIN ro.outputs |-> ro.prompt_token_ids]),
                "output_tokens",
                [i \in DOMAIN ro.outputs |-> ro.outputs[i].token_ids])]

\* The part both handlers share, up to llm.generate (lines 118-151 and
\* 179-212): job_input['prompt'] raises KeyError when the prompt is missing; a
\* non-empty sampling_params mapping goes through validate_sampling_params,
\* whose exception leaves the handler; otherwise one generate call is made
\* under a fresh request id. sampling_params[j] is what SamplingParams is built
\* from (<<>> for SamplingParams()); the engine's own checks of it are the
\* engine's.
start_job(j, inp) ==
    LET sp == IF "sampling_params" \in DOMAIN inp THEN inp.sampling_params ELSE <<>>
        v == validate_sampling_params(sp)
        exc == IF "prompt" \notin DOMAIN inp THEN "KeyError"
               ELSE IF DOMAIN sp # {} THEN v.exc ELSE "none"
    IN  /\ phase = "running"
        /\ pc[j] = "idle"
        /\ job_input' = [job_input EXCEPT ![j] = inp]
        /\ prompt' = [prompt EXCEPT ![j] =
                        IF "prompt" \in DOMAIN inp
                        THEN <<apply_template(select_template(MODEL_NAME), inp.prompt)>>
                        ELSE <<>>]
        /\ IF exc # "none"
           THEN /\ pc' = [pc EXCEPT ![j] = "failed"]
                /\ raised' = [raised EXCEPT ![j] = exc]
                /\ UNCHANGED <<sampling_params, generate_calls, uuids>>
           ELSE /\ pc' = [pc EXCEPT ![j] = "iterating"]
                /\ sampling_params' = [sampling_params EXCEPT ![j] =
                                          IF DOMAIN sp # {} THEN v.val ELSE <<>>]
                /\ uuids' = uuids + 1
                /\ generate_calls' = [generate_calls EXCEPT ![j] = Append(@, uuids + 1)]
                /\ UNCHANGED raised
        /\ UNCHANGED <<results, final_output, yielded, returned>>
        /\ UNCHANGED <<startupVars, metricVars, schedVars, ccVars, spVars>>

\* handler_streaming, lines 118-151.
handler_streaming_start(j, inp) ==
    /\ STREAMING
    /\ start_job(j, inp)

\* A variant that coalesces: a state after the first replaces the response
\* yielded last instead of being yielded on its own.
handler_streaming_iter_coalesce(j, request_output) ==
    /\ STREAMING
    /\ pc[j] = "iterating"
    /\ Len(results[j]) < MaxStates
    /\ results' = [results EXCEPT ![j] = Append(@, request_output)]
    /\ metricsHeap' = write_metrics(metricsHeap, prepare_metrics, job_input[j],
                                    request_output)
    /\ yielded' = [yielded EXCEPT ![j] =
                      <<[text |-> text_outputs(request_output),
                         runpod_internal |-> [metrics |-> prepare_metrics]]>>]
    /\ UNCHANGED <<pc, job_input, prompt, sampling_params, generate_calls,
                   final_output, returned, raised, uuids>>
    /\ UNCHANGED <<startupVars, engine_metrics, schedVars, ccVars, spVars>>

\* handler_streaming, one turn of the async for (lines 154-172): the state
\* received is turned into a response and yielded at once.
handler_streaming_iter(j, request_output) ==
    /\ STREAMING
    /\ pc[j] = "iterating"
    /\ Len(results[j]) < MaxStates
    /\ results' = [results EXCEPT ![j] = Append(@, request_output)]
    /\ metricsHeap' = write_metrics(metricsHeap, prepare_metrics, job_input[j],
                                    request_output)
    /\ yielded' = [yielded EXCEPT ![j] =
                      Append(@, [text |-> text_outputs(request_output),
                                 runpod_internal |-> [metrics |-> prepare_metrics]])]
    /\ UNCHANGED <<pc, job_input, prompt, sampling_params, generate_calls,
                   final_output, returned, raised, uuids>>
    /\ UNCHANGED <<startupVars, engine_metrics, schedVars, ccVars, spVars>>

\* handler_streaming: the engine's sequence ends, and so does the generator.
handler_streaming_end(j) ==
    /\ STREAMING
    /\ pc[j] = "iterating"
    /\ pc' = [pc EXCEPT ![j] = "done"]
    /\ UNCHANGED <<job_input, prompt, sampling_params, generate_calls, results,
                   final_output, yielded, returned, raised, uuids>>
    /\ UNCHANGED <<startupVars, metricVars, schedVars, ccVars, spVars>>

\* A variant that salvages: when the engine raises, handler returns what the
\* last state received held.
propagate_salvage(j) ==
    /\ pc[j] = "iterating"
    /\ pc' = [pc EXCEPT ![j] = "failed"]
    /\ raised' = [raised EXCEPT ![j] = "EngineError"]
    /\ returned' = [returned EXCEPT ![j] =
          IF final_output[j] = <<>> THEN @
          ELSE Append(@, [outputs |-> text_outputs(final_output[j][1]),
                          runpod_internal |-> [metrics |-> prepare_metrics]])]
    /\ UNCHANGED <<job_input, prompt, sampling_params, generate_calls, results,
                   final_output, yielded, uuids>>
    /\ UNCHANGED <<startupVars, metricVars, schedVars, ccVars, spVars>>

\* Awaiting the engine's sequence raises: neither handler has a try, so the
\* exception leaves the handler with nothing else done.
propagate(j) ==
    /\ pc[j] = "iterating"
    /\ pc' = [pc EXCEPT ![j] = "failed"]
    /\ raised' = [raised EXCEPT ![j] = "EngineError"]
    /\ UNCHANGED <<job_input, prompt, sampling_params, generate_calls, results,
                   final_output, yielded, returned, uuids>>
    /\ UNCHANGED <<startupVars, metricVars, schedVars, ccVars, spVars>>

\* handler_streaming: the async for of line 154 raises.
handler_streaming_raise(j) ==
    /\ STREAMING
    /\ propagate(j)

\* handler, lines 179-212.
handler_start(j, inp) ==
    /\ ~STREAMING
    /\ start_job(j, inp)

\* A variant that keeps the first state received instead of the last.
handler_iter_keep_first(j, request_output) ==
    /\ ~STREAMING
    /\ pc[j] = "iterating"
    /\ Len(results[j]) < MaxStates
    /\ results' = [results EXCEPT ![j] = Append(@, request_output)]
    /\ final_output' = [final_output EXCEPT ![j] =
                           IF @ = <<>> THEN <<request_output>> ELSE @]
    /\ UNCHANGED <<pc, job_input, prompt, sampling_params, generate_calls,
                   yielded, returned, raised, uuids>>
    /\ UNCHANGED <<startupVars, metricVars, schedVars, ccVars, spVars>>

\* handler, one turn of the async for (lines 216-217).
handler_iter(j, request_output) ==
    /\ ~STREAMING
    /\ pc[j] = "iterating"
    /\ Len(results[j]) < MaxStates
    /\ results' = [results EXCEPT ![j] = Append(@, request_output)]
    /\ final_output' = [final_output EXCEPT ![j] = <<request_output>>]
    /\ UNCHANGED <<pc, job_input, prompt, sampling_params, generate_calls,
                   yielded, returned, raised, uuids>>
    /\ UNCHANGED <<startupVars, metricVars, schedVars, ccVars, spVars>>

\* handler, after the loop (lines 219-235): final_output.prompt raises
\* AttributeError when the engine produced no state; otherwise the metrics are
\* written and the one response is returned.
handler_return(j) ==
    /\ ~STREAMING
    /\ pc[j] = "iterating"
    /\ IF final_output[j] = <<>>
       THEN /\ pc' = [pc EXCEPT ![j] = "failed"]
            /\ raised' = [raised EXCEPT ![j] = "AttributeError"]
            /\ UNCHANGED <<metricsHeap, returned>>
       ELSE /\ pc' = [pc EXCEPT ![j] = "done"]
            /\ metricsHeap' = write_metrics(metricsHeap, prepare_metrics,
                                            job_input[j], final_output[j][1])
            /\ returned' = [returned EXCEPT ![j] =
                  Append(@, [outputs |-> text_outputs(final_output[j][1]),
                             runpod_internal |-> [metrics |-> prepare_metrics]])]
            /\ UNCHANGED raised
    /\ UNCHANGED <<job_input, prompt, sampling_params, generate_calls, results,
                   final_output, yielded, uuids>>
    /\ UNCHANGED <<startupVars, engine_metrics, schedVars, ccVars, spVars>>

\* handler: the async for of line 216 raises.
handler_raise(j) ==
    /\ ~STREAMING
    /\ propagate(j)

\* ------------------------------------------------------------ initial values

JobsIdle ==
    /\ pc = [j \in Jobs |-> "idle"]
    /\ job_input = [j \in Jobs |-> <<>>]
    /\ prompt = [j \in Jobs |-> <<>>]
    /\ sampling_params = [j \in Jobs |-> <<>>]
    /\ generate_calls = [j \in Jobs |-> <<>>]
    /\ results = [j \in Jobs |-> <<>>]
    /\ final_output = [j \in Jobs |-> <<>>]
    /\ yielded = [j \in Jobs |-> <<>>]
    /\ returned = [j \in Jobs |-> <<>>]
    /\ raised = [j \in Jobs |-> "none"]
    /\ uuids = 0
    /\ metricsHeap = <<[stats |-> 0]>>
    /\ engine_metrics = 1

SchedulerIdle ==
    /\ waiting = 0
    /\ swapped = 0
    /\ polled = FALSE
    /\ cc_result = FALSE

ValidatorIdle ==
    /\ sp_input = <<>>
    /\ sp_result = <<>>

\* ---------------------------------------------------- concurrency controller

\* A variant whose comparison is off by one.
concurrency_controller_at_least(w, s) ==
    LET total_pending_sequences == w + s
    IN  total_pending_sequences >= 30

\* len(waiting) + len(swapped) > 30 (lines 51 and 55).
concurrency_controller(w, s) ==
    LET total_pending_sequences == w + s
    IN  total_pending_sequences > 30

\* The platform polls the controller.
concurrency_controller_call ==
    /\ phase = "running"
    /\ polled' = TRUE
    /\ cc_result' = concurrency_controller(waiting, swapped)
    /\ UNCHANGED <<startupVars, jobVars, metricVars, schedVars, spVars>>

\* The engine's scheduler moves requests in and out of its two queues.
scheduler_enqueue ==
    /\ waiting < MaxWaiting
    /\ waiting' = waiting + 1
    /\ polled' = FALSE
    /\ UNCHANGED <<startupVars, jobVars, metricVars, swapped, cc_result, spVars>>

scheduler_admit ==
    /\ waiting > 0
    /\ waiting' = waiting - 1
    /\ polled' = FALSE
    /\ UNCHANGED <<startupVars, jobVars, metricVars, swapped, cc_result, spVars>>

scheduler_swap_out ==
    /\ swapped < MaxSwapped
    /\ swapped' = swapped + 1
    /\ polled' = FALSE
    /\ UNCHANGED <<startupVars, jobVars, metricVars, waiting, cc_result, spVars>>

scheduler_swap_in ==
    /\ swapped > 0
    /\ swapped' = swapped - 1
    /\ polled' = FALSE
    /\ UNCHANGED <<startupVars, jobVars, metricVars, waiting, cc_result, spVars>>

\* ------------------------------------------------- validate_sampling_params

\* The JSON values a field of the mapping is given.
SampleValues ==
    { PyNone, PyBool(TRUE), PyBool(FALSE), PyInt(5), PyBigInt, PyFloat(5),
      PyInf, PyNaN, PyStrInt(7), PyStrFloat(3), PyStrOther, PyList }

\* The mappings handed to validate_sampling_params: at most MaxFields keys.
SamplingInputs ==
    UNION { [S -> SampleValues] :
            S \in {T \in SUBSET Fields : Cardinality(T) <= MaxFields} }

\* A call of validate_sampling_params(sp_input).
validate_call ==
    /\ sp_result = <<>>
    /\ sp_result' = <<validate_sampling_params(sp_input)>>
    /\ UNCHANGED <<startupVars, jobVars, metricVars, schedVars, ccVars, sp_input>>

\* ----------------------------------------------------------- specifications

\* The worker under a model name it starts with: either handler, the jobs not
\* yet received.
Init ==
    /\ phase = "import"
    /\ MODEL_NAME = OPT_125M
    /\ STREAMING \in BOOLEAN
    /\ JobsIdle
    /\ SchedulerIdle
    /\ ValidatorIdle

Next ==
    \/ module_import
    \/ \E j \in Jobs, inp \in JobInputs : handler_streaming_start(j, inp)
    \/ \E j \in Jobs : \E ro \in EngineStates(j) : handler_streaming_iter(j, ro)
    \/ \E j \in Jobs : handler_streaming_end(j)
    \/ \E j \in Jobs : handler_streaming_raise(j)
    \/ \E j \in Jobs, inp \in JobInputs : handler_start(j, inp)
    \/ \E j \in Jobs : \E ro \in EngineStates(j) : handler_iter(j, ro)
    \/ \E j \in Jobs : handler_return(j)
    \/ \E j \in Jobs : handler_raise(j)

Spec == Init /\ [][Next]_vars

\* The worker under every value of MODEL_NAME.
InitStartup ==
    /\ phase = "import"
    /\ MODEL_NAME \in ModelNames
    /\ STREAMING \in BOOLEAN
    /\ JobsIdle
    /\ SchedulerIdle
    /\ ValidatorIdle

SpecStartup == InitStartup /\ [][Next]_vars

\* The running worker's controller, polled while the scheduler works.
InitController ==
    /\ phase = "running"
    /\ MODEL_NAME = OPT_125M
    /\ STREAMING \in BOOLEAN
    /\ JobsIdle
    /\ SchedulerIdle
    /\ ValidatorIdle

NextController ==
    \/ concurrency_controller_call
    \/ scheduler_enqueue
    \/ scheduler_admit
    \/ scheduler_swap_out
    \/ scheduler_swap_in

SpecController == InitController /\ [][NextController]_vars

\* validate_sampling_params on every mapping of SamplingInputs.
InitValidate ==
    /\ phase = "running"
    /\ MODEL_NAME = OPT_125M
    /\ STREAMING = FALSE
    /\ JobsIdle
    /\ SchedulerIdle
    /\ sp_input \in SamplingInputs
    /\ sp_result = <<>>

NextValidate == validate_call

SpecValidate == InitValidate /\ [][NextValidate]_vars

\* ------------------------------------------------------------------ claims

\* The completion texts of an intermediate state, read off the state itself.
TextsOf(ro) == [i \in 1..Len(ro.outputs) |-> ro.outputs[i].text]

\* The metrics mapping a response refers to, as it reads now.
MetricsOf(response) == metricsHeap[response.runpod_internal.metrics]

\* C1: handler_streaming has yielded exactly one response for each
\* intermediate state received so far, in the order received, and the k-th
\* response's "text" is the list of completion texts of the k-th state.
C1_StreamingYieldsEachState ==
    \A j \in Jobs :
        STREAMING =>
            /\ Len(yielded[j]) = Len(results[j])
            /\ \A k \in 1..Len(results[j]) :
                   yielded[j][k].text = TextsOf(results[j][k])
            /\ returned[j] = <<>>

\* C1, its case: a streaming job ran to its end over a sequence of at least
\* two states, the first and the last with different texts.
C1_Witness ==
    \E j \in Jobs :
        /\ STREAMING
        /\ pc[j] = "done"
        /\ Len(results[j]) >= 2
        /\ Len(yielded[j]) = Len(results[j])
        /\ yielded[j][1].text # yielded[j][Len(yielded[j])].text

\* C2: handler returns at most one response; the step that returns it is
\* taken after at least one state was received, ends the job (no state is
\* received afterwards), and returns the completion texts of the last state
\* received with input_tokens and output_tokens lists as long as that state's
\* list of completions.
C2_ReturnsLastStateOnce ==
    [][\A j \in Jobs :
        /\ Len(returned'[j]) <= 1
        /\ returned[j] # <<>> => results'[j] = results[j]
        /\ returned'[j] # returned[j] =>
            /\ ~STREAMING
            /\ pc'[j] = "done"
            /\ results'[j] = results[j]
            /\ Len(results[j]) >= 1
            /\ LET last == results[j][Len(results[j])]
                   ret == returned'[j][1]
                   metrics == metricsHeap'[ret.runpod_internal.metrics]
               IN  /\ ret.outputs = TextsOf(last)
                   /\ Len(metrics["input_tokens"]) = Len(last.outputs)
                   /\ Len(metrics["output_tokens"]) = Len(last.outputs)
      ]_vars

\* C2, its case: handler returned after a sequence of at least two states
\* whose first and last differ in their number of completions.
C2_Witness ==
    \E j \in Jobs :
        /\ ~STREAMING
        /\ pc[j] = "done"
        /\ Len(returned[j]) = 1
        /\ Len(results[j]) >= 2
        /\ Len(results[j][1].outputs) # Len(results[j][Len(results[j])].outputs)

\* C3: the metrics of every response delivered for a job describe that job:
\* their job_input is the job's own input, whatever the other jobs do.
C3_MetricsDescribeOwnJob ==
    \A j \in Jobs :
        /\ \A k \in 1..Len(yielded[j]) :
               MetricsOf(yielded[j][k])["job_input"] = job_input[j]
        /\ \A k \in 1..Len(returned[j]) :
               MetricsOf(returned[j][k])["job_input"] = job_input[j]

\* C4: while a streaming job is the only job handled, the metrics of its k-th
\* response keep the token counts of the k-th intermediate state after later
\* states are processed.
C4_SnapshotKept ==
    \A j \in Jobs :
        (\A o \in Jobs \ {j} : pc[o] = "idle") =>
            \A k \in 1..Len(yielded[j]) :
                LET ro == results[j][k]
                    metrics == MetricsOf(yielded[j][k])
                IN  /\ metrics["job_input"] = job_input[j]
                    /\ metrics["input_tokens"] =
                          [i \in 1..Len(ro.outputs) |-> ro.prompt_token_ids]
                    /\ metrics["output_tokens"] =
                          [i \in 1..Len(ro.outputs) |-> ro.outputs[i].token_ids]

\* C5, as claimed: when awaiting the engine's sequence raised, the job failed,
\* one generate call was made for it, and no output at all was delivered for
\* it, by either handler.
C5_NoPartialOutput ==
    \A j \in Jobs :
        raised[j] = "EngineError" =>
            /\ pc[j] = "failed"
            /\ Len(generate_calls[j]) = 1
            /\ returned[j] = <<>>
            /\ yielded[j] = <<>>

\* C5, amended: no job ever has a second generate call; when awaiting the
\* engine's sequence raised, the job failed and handler returned nothing,
\* while handler_streaming had yielded one response for each state received
\* before the failure and yields none after it.
C5_PropagatesWithoutRetry ==
    \A j \in Jobs :
        /\ Len(generate_calls[j]) <= 1
        /\ raised[j] = "EngineError" =>
            /\ pc[j] = "failed"
            /\ Len(generate_calls[j]) = 1
            /\ returned[j] = <<>>
            /\ ~STREAMING => yielded[j] = <<>>
            /\ STREAMING => Len(yielded[j]) = Len(results[j])

\* C5, its case: the engine raised for a streaming job after a state was
\* received, and for that state a response had been yielded.
C5_Witness ==
    \E j \in Jobs :
        /\ STREAMING
        /\ raised[j] = "EngineError"
        /\ Len(results[j]) >= 1
        /\ Len(yielded[j]) >= 1

\* C6: a call of concurrency_controller returns TRUE exactly when the waiting
\* and swapped queue lengths at the call sum to more than 30 (TRUE at 31,
\* FALSE at 30), and the call changes neither queue nor any other state.
C6_ControllerThreshold ==
    [][polled' =>
        /\ cc_result' = (waiting + swapped > 30)
        /\ waiting + swapped = 31 => cc_result' = TRUE
        /\ waiting + swapped = 30 => cc_result' = FALSE
        /\ UNCHANGED <<schedVars, startupVars, jobVars, metricVars, spVars>>
      ]_vars

\* C6, its case: the controller was called with 31 pending sequences and
\* returned TRUE.
C6_Witness ==
    /\ polled
    /\ waiting + swapped = 31
    /\ waiting > 0
    /\ swapped > 0
    /\ cc_result = TRUE

\* C7: validate_sampling_params never raises and returns a configuration with
\* all twelve fields.
C7_NeverRaises ==
    Len(sp_result) = 1 =>
        /\ sp_result[1].exc = "none"
        /\ DOMAIN sp_result[1].val = Fields

\* C8, as claimed: the configuration returned holds the input's stop and the
\* input's logprobs unchanged, None when missing.
C8_OpaquePassThrough ==
    (Len(sp_result) = 1 /\ sp_result[1].exc = "none") =>
        /\ sp_result[1].val["stop"] = DictGet(sp_input, "stop")
        /\ sp_result[1].val["logprobs"] = DictGet(sp_input, "logprobs")

\* What float conversion with a None default makes of a JSON value.
AsFloatOrNone(x) ==
    CASE x.t \in {"none", "list", "str_other"} -> PyNone
      [] x.t \in {"bool", "int", "str_int"} -> PyFloat(2 * x.v)
      [] x.t = "str_float" -> PyFloat(x.v)
      [] x.t = "str_inf" -> PyInf
      [] OTHER -> x

\* C8, amended: the configuration returned holds the input's stop unchanged
\* (None when missing), but its logprobs is the input's logprobs converted to
\* float, None when missing or not convertible; an int logprobs beyond the
\* range of a float makes the call raise OverflowError.
C8_StopPassedLogprobsCoerced ==
    Len(sp_result) = 1 =>
        LET lp == DictGet(sp_input, "logprobs")
        IN  /\ lp.t = "bigint" => sp_result[1].exc = "OverflowError"
            /\ sp_result[1].exc = "none" =>
                /\ sp_result[1].val["stop"] = DictGet(sp_input, "stop")
                /\ sp_result[1].val["logprobs"] = AsFloatOrNone(lp)

\* C8, its case: a mapping with a list for stop and the int 5 for logprobs
\* was validated; stop came back as given, logprobs as the float 5.0.
C8_Witness ==
    /\ Len(sp_result) = 1
    /\ sp_result[1].exc = "none"
    /\ DOMAIN sp_input = {"stop", "logprobs"}
    /\ sp_input["stop"] = PyList
    /\ sp_input["logprobs"] = PyInt(5)
    /\ sp_result[1].val["stop"] = PyList
    /\ sp_result[1].val["logprobs"] = PyFloat(10)

\* The model identifier is llama-2-7b-chat-hf in some letter case, with or
\* without an organisation before it.
IsLlama7B(name) ==
    /\ name # <<>>
    /\ Lower(<<name[Len(name)]>>) = LLAMA_7B

\* C9: a worker whose model identifier is llama-2-7b-chat-hf, in any letter
\* case, gets through its start-up and applies to its jobs the llama template,
\* which no worker under another identifier applies.
C9_LlamaTemplateDiffers ==
    /\ (IsLlama7B(MODEL_NAME) /\ phase # "import") => phase = "running"
    /\ \A j \in Jobs :
           prompt[j] # <<>> =>
               (prompt[j][1].template = "LLAMA_TEMPLATE" <=> IsLlama7B(MODEL_NAME))

\* The defaults the claim documents for the numeric fields.
DocumentedDefault(f) ==
    CASE f \in {"n"} -> PyInt(1)
      [] f = "top_k" -> PyInt(-1)
      [] f = "max_tokens" -> PyInt(256)
      [] f \in {"temperature", "top_p"} -> PyFloat(2)
      [] f \in {"presence_penalty", "frequency_penalty"} -> PyFloat(0)
      [] OTHER -> PyNone

\* The value of a numeric field is absent or is not parsed by the field's
\* conversion.
AbsentOrUnparsed(sp, f) ==
    \/ f \notin DOMAIN sp
    \/ f \in IntFields /\ py_int(sp[f]).exc # "none"
    \/ f \in FloatFields /\ py_float(sp[f]).exc # "none"

\* C10: whatever the other fields hold, the configuration validated from a
\* mapping has the documented default in every numeric field that is absent
\* from the mapping or does not parse.
C10_DefaultsSubstituted ==
    Len(sp_result) = 1 =>
        \A f \in IntFields \cup FloatFields :
            AbsentOrUnparsed(sp_input, f) =>
                /\ sp_result[1].exc = "none"
                /\ sp_result[1].val[f] = DocumentedDefault(f)

====
